---- MODULE Spec2Model ----
(***************************************************************************)
(* Model of heart_dashboard.py: the Streamlit script that loads and cleans *)
(* the open-heart-surgery table (load_data), builds the sidebar filters,   *)
(* reduces the cleaned table to the filtered subset, and renders the KPI   *)
(* header and the risk-model tab.  One script run (top to bottom) is one   *)
(* step of the model.                                                      *)
(*                                                                         *)
(* Texts are sequences of one-character strings, so that strip(), lower(), *)
(* the date format and numeric parsing are computed and not assumed.  An   *)
(* empty text is an empty CSV cell, which pandas reads as NaN.  A derived  *)
(* numeric cell is an option: <<v>> holds v, <<>> is NaN.                  *)
(***************************************************************************)
EXTENDS Integers, Sequences, FiniteSets

VARIABLES
    raw,          \* the CSV file: a sequence of rows of text cells
    status,       \* "init", or how the last script run ended
    df,           \* the cleaned table returned by load_data (line 64)
    ageDtype,     \* dtype of df["Age"]: "number" or "object"
    y_from, y_to, \* year slider (line 72)
    sel_area,     \* residence multiselect (line 76)
    sel_gender,   \* gender multiselect (line 79)
    sel_smoke,    \* smoker multiselect (line 82)
    a_from, a_to, \* age slider (line 85)
    filtered,     \* the filtered subset (line 88)
    kpi,          \* the four KPI metric strings (lines 103-106)
    risk,         \* what the risk tab did: "none", "notice" or "trained"
    thr,          \* probability threshold slider, in steps of 0.05 (line 233)
    clicked_area  \* st.session_state.clicked_area (lines 159-175)

vars == <<raw, status, df, ageDtype, y_from, y_to, sel_area, sel_gender,
          sel_smoke, a_from, a_to, filtered, kpi, risk, thr, clicked_area>>

(***************************************************************************)
(* Bounds of the model.                                                    *)
(***************************************************************************)
\* longest CSV file enumerated row by row from RowPool
MaxRows == 2

(***************************************************************************)
(* Program constants.                                                      *)
(***************************************************************************)
\* len(use_df) < 60 (line 198)
MinTrainRows == 60
\* default of the threshold slider, 0.5, in steps of 0.05 (line 233)
ThrDefault == 10
\* maximum of the threshold slider, 1.0, in steps of 0.05 (line 233)
ThrMax == 20

(***************************************************************************)
(* Text primitives.                                                        *)
(***************************************************************************)
NaN == <<>>

isna(c) == c = NaN

Whitespace == {" "}

Digits == {"0", "1", "2", "3", "4", "5", "6", "7", "8", "9"}

DigitVal(c) ==
    CASE c = "0" -> 0 [] c = "1" -> 1 [] c = "2" -> 2 [] c = "3" -> 3
      [] c = "4" -> 4 [] c = "5" -> 5 [] c = "6" -> 6 [] c = "7" -> 7
      [] c = "8" -> 8 [] c = "9" -> 9

\* str.lower() on the letters that occur in the data
LowerChar(c) ==
    CASE c = "Y" -> "y" [] c = "E" -> "e" [] c = "S" -> "s"
      [] c = "N" -> "n" [] c = "O" -> "o" [] c = "M" -> "m"
      [] c = "F" -> "f" [] OTHER -> c

lower(t) == [i \in 1..Len(t) |-> LowerChar(t[i])]

RECURSIVE lstrip(_)
lstrip(t) ==
    IF t # <<>> /\ Head(t) \in Whitespace THEN lstrip(Tail(t)) ELSE t

RECURSIVE rstrip(_)
rstrip(t) ==
    IF t # <<>> /\ t[Len(t)] \in Whitespace
    THEN rstrip(SubSeq(t, 1, Len(t) - 1)) ELSE t

\* str.strip()
strip(t) == rstrip(lstrip(t))

\* astype(str): NaN becomes the text "nan"
astype_str(c) == IF isna(c) THEN <<"n", "a", "n">> ELSE c

\* a text that reads as a number; the ages of the data are whole years
IsDigits(t) == t # <<>> /\ \A i \in 1..Len(t) : t[i] \in Digits

RECURSIVE ToInt(_)
ToInt(t) ==
    IF t = <<>> THEN 0
    ELSE 10 * ToInt(SubSeq(t, 1, Len(t) - 1)) + DigitVal(t[Len(t)])

RECURSIVE SplitDot(_, _, _)
SplitDot(t, cur, acc) ==
    IF t = <<>> THEN Append(acc, cur)
    ELSE IF Head(t) = "." THEN SplitDot(Tail(t), <<>>, Append(acc, cur))
    ELSE SplitDot(Tail(t), Append(cur, Head(t)), acc)

IsLeap(y) == (y % 4 = 0 /\ y % 100 # 0) \/ y % 400 = 0

DaysIn(m, y) ==
    IF m = 2 THEN (IF IsLeap(y) THEN 29 ELSE 28)
    ELSE IF m \in {4, 6, 9, 11} THEN 30 ELSE 31

\* pd.to_datetime(format="%d.%m.%Y", errors="coerce"): <<[d, m, y]>> or NaT
to_datetime(t) ==
    LET p == SplitDot(t, <<>>, <<>>) IN
    IF /\ Len(p) = 3
       /\ IsDigits(p[1]) /\ Len(p[1]) \in 1..2
       /\ IsDigits(p[2]) /\ Len(p[2]) \in 1..2
       /\ IsDigits(p[3]) /\ Len(p[3]) = 4
       /\ ToInt(p[2]) \in 1..12
       /\ ToInt(p[1]) \in 1..DaysIn(ToInt(p[2]), ToInt(p[3]))
    THEN <<[d |-> ToInt(p[1]), m |-> ToInt(p[2]), y |-> ToInt(p[3])]>>
    ELSE NaN

(***************************************************************************)
(* 1. LOAD / CLEAN (lines 32-62).                                          *)
(***************************************************************************)
Range(s) == {s[i] : i \in 1..Len(s)}

\* DataFrame.dropna(subset=cols): the rows with no NaN in cols, in order
dropna(rows, cols) ==
    SelectSeq(rows, LAMBDA r : \A c \in cols : ~isna(r[c]))

\* read_csv infers a numeric Age column iff every non-empty cell is a number
AgeIsObject(csv) ==
    \E i \in 1..Len(csv) : ~isna(csv[i].Age) /\ ~IsDigits(csv[i].Age)

\* pd.read_csv (line 34): the index is the row position; a numeric Age
\* column holds numbers, an object one keeps the texts
read_csv(csv) ==
    [i \in 1..Len(csv) |->
        [idx |-> i - 1, Date |-> csv[i].Date, Sex |-> csv[i].Sex,
         Age |-> IF AgeIsObject(csv) \/ isna(csv[i].Age) THEN csv[i].Age
                 ELSE <<ToInt(csv[i].Age)>>,
         Residence |-> csv[i].Residence, Smoker |-> csv[i].Smoker,
         HTN |-> csv[i].HTN, Bleeding |-> csv[i].Bleeding]]

\* mutant of map_yn: any text other than "yes" is given 0
map_yn_default0(c) ==
    IF lower(strip(astype_str(c))) = <<"y", "e", "s">> THEN <<1>> ELSE <<0>>

\* .astype(str).str.strip().str.lower().map({"yes": 1, "no": 0}) (lines 42-46)
map_yn(c) ==
    LET t == lower(strip(astype_str(c))) IN
    IF t = <<"y", "e", "s">> THEN <<1>>
    ELSE IF t = <<"n", "o">> THEN <<0>>
    ELSE NaN

\* df["Age"].astype(float) (line 52) raises on a text that is no number
AstypeFloatRaises(rows, obj) ==
    obj /\ \E i \in 1..Len(rows) : ~isna(rows[i].Age) /\ ~IsDigits(rows[i].Age)

AgeValue(r, obj) == IF obj THEN ToInt(r.Age) ELSE r.Age[1]

\* pd.cut(bins=[0, 49, 59, 69, 79, 120]) (lines 51-55)
cut(r, obj) ==
    IF isna(r.Age) THEN NaN
    ELSE LET a == AgeValue(r, obj) IN
         IF a > 0 /\ a <= 49 THEN <<"<50">>
         ELSE IF a > 49 /\ a <= 59 THEN <<"50-59">>
         ELSE IF a > 59 /\ a <= 69 THEN <<"60-69">>
         ELSE IF a > 69 /\ a <= 79 THEN <<"70-79">>
         ELSE IF a > 79 /\ a <= 120 THEN <<"80+">>
         ELSE NaN

\* mutant of KeepCols: Sex is missing from the subset
KeepColsNoSex == {"Age", "Residence", "Smoker_Num", "HTN_Num", "Bleeding_Num"}

\* the columns of the final dropna (lines 58-61)
KeepCols == {"Sex", "Age", "Residence", "Smoker_Num", "HTN_Num", "Bleeding_Num"}

\* lines 37-39: parse the dates, drop the rows whose date did not parse
ParseDates(rows) ==
    dropna([i \in 1..Len(rows) |->
               [rows[i] EXCEPT !.Date = to_datetime(rows[i].Date)]],
           {"Date"})

\* the final dropna (lines 58-61)
KeepAnalysable(rows) == dropna(rows, KeepCols)

\* lines 42-55: the yes/no companions and the helper columns
Derive(r, obj) ==
    [idx |-> r.idx, Date |-> r.Date, Sex |-> r.Sex, Age |-> r.Age,
     Residence |-> r.Residence, Smoker |-> r.Smoker, HTN |-> r.HTN,
     Bleeding |-> r.Bleeding,
     Smoker_Num |-> map_yn(r.Smoker), HTN_Num |-> map_yn(r.HTN),
     Bleeding_Num |-> map_yn(r.Bleeding),
     Year |-> IF isna(r.Date) THEN NaN ELSE <<r.Date[1].y>>,
     Month |-> IF isna(r.Date) THEN NaN ELSE <<r.Date[1].y, r.Date[1].m>>,
     AgeBin |-> cut(r, obj)]

\* load_data (lines 33-62): the cleaned table, or the exception it raises
load_data(csv) ==
    LET obj   == AgeIsObject(csv)
        dated == ParseDates(read_csv(csv))
    IN  IF AstypeFloatRaises(dated, obj)
        THEN [error |-> "ValueError", rows |-> <<>>, obj |-> obj]
        ELSE [error |-> "none",
              rows |-> KeepAnalysable(
                           [i \in 1..Len(dated) |-> Derive(dated[i], obj)]),
              obj |-> obj]

(***************************************************************************)
(* 2. SIDEBAR GLOBAL FILTERS (lines 69-94).                                *)
(***************************************************************************)
Min(S) == CHOOSE x \in S : \A y \in S : x <= y

Max(S) == CHOOSE x \in S : \A y \in S : x >= y

Column(rows, c) == {rows[i][c] : i \in 1..Len(rows)}

\* smk_opts = ["yes", "no"] (line 81)
smk_opts == {<<"y", "e", "s">>, <<"n", "o">>}

\* Series.between(lo, hi): inclusive on both ends
between(x, lo, hi) == lo <= x /\ x <= hi

\* mutant of Mask: the upper bound of the age range is exclusive
MaskExclusive(r, yf, yt, area, gender, smoke, af, at) ==
    /\ between(r.Year[1], yf, yt)
    /\ r.Residence \in area
    /\ r.Sex \in gender
    /\ r.Smoker \in smoke
    /\ af <= r.Age[1] /\ r.Age[1] < at

\* mutant of Mask: the gender test is inverted
MaskInverted(r, yf, yt, area, gender, smoke, af, at) ==
    /\ between(r.Year[1], yf, yt)
    /\ r.Residence \in area
    /\ r.Sex \notin gender
    /\ r.Smoker \in smoke
    /\ between(r.Age[1], af, at)

\* the boolean mask of lines 89-93, for one row
Mask(r, yf, yt, area, gender, smoke, af, at) ==
    /\ between(r.Year[1], yf, yt)
    /\ r.Residence \in area
    /\ r.Sex \in gender
    /\ r.Smoker \in smoke
    /\ between(r.Age[1], af, at)

\* mutant of Filter: the rows of the mask, in reverse order
FilterReversed(rows, yf, yt, area, gender, smoke, af, at) ==
    LET f == SelectSeq(rows, LAMBDA r : Mask(r, yf, yt, area, gender, smoke, af, at))
    IN  [i \in 1..Len(f) |-> f[Len(f) + 1 - i]]

\* df[mask].copy() (lines 88-94): the rows of the mask, in the table's order
Filter(rows, yf, yt, area, gender, smoke, af, at) ==
    SelectSeq(rows, LAMBDA r : Mask(r, yf, yt, area, gender, smoke, af, at))

(***************************************************************************)
(* 3. KPI HEADER (lines 102-106).                                          *)
(***************************************************************************)
DigitChar(n) ==
    CASE n = 0 -> "0" [] n = 1 -> "1" [] n = 2 -> "2" [] n = 3 -> "3"
      [] n = 4 -> "4" [] n = 5 -> "5" [] n = 6 -> "6" [] n = 7 -> "7"
      [] n = 8 -> "8" [] n = 9 -> "9"

RECURSIVE IntText(_)
IntText(n) ==
    IF n < 10 THEN <<DigitChar(n)>>
    ELSE Append(IntText(n \div 10), DigitChar(n % 10))

\* f"{len(filtered):,}" (line 103): a comma every three digits
RECURSIVE FormatCount(_)
FormatCount(n) ==
    IF n < 1000 THEN IntText(n)
    ELSE LET low == n % 1000 IN
         FormatCount(n \div 1000) \o <<",">> \o
         (IF low < 10 THEN <<"0", "0">> ELSE IF low < 100 THEN <<"0">> ELSE <<>>)
         \o IntText(low)

RECURSIVE SumCol(_, _)
SumCol(rows, c) ==
    IF rows = <<>> THEN 0 ELSE Head(rows)[c][1] + SumCol(Tail(rows), c)

\* k / n * 100 in tenths, rounded half to even as the 0.1f format does
RoundTenths(k, n) ==
    LET q == (k * 1000) \div n
        twice == 2 * ((k * 1000) % n)
    IN  IF twice > n \/ (twice = n /\ q % 2 = 1) THEN q + 1 ELSE q

\* f"{filtered[c].mean()*100:0.1f}" (lines 104-106): the mean of no rows
\* is NaN, which the format prints as "nan"
FormatPct(rows, c) ==
    IF rows = <<>> THEN <<"n", "a", "n">>
    ELSE LET t == RoundTenths(SumCol(rows, c), Len(rows)) IN
         IntText(t \div 10) \o <<".">> \o IntText(t % 10)

KpiHeader(rows) ==
    [Patients |-> FormatCount(Len(rows)),
     Smokers  |-> FormatPct(rows, "Smoker_Num"),
     HTN      |-> FormatPct(rows, "HTN_Num"),
     Bleeding |-> FormatPct(rows, "Bleeding_Num")]

(***************************************************************************)
(* 4-C RISK MODEL (lines 194-247).                                         *)
(***************************************************************************)
\* use_df (line 197)
use_df(rows) == dropna(rows, {"Smoker_Num", "HTN_Num", "Age"})

\* mutant of RiskTab: the row-count guard is missing
RiskTabUnguarded(rows) == "trained"

\* lines 198-211: the notice, or the model is fitted
RiskTab(rows) ==
    IF Len(use_df(rows)) < MinTrainRows THEN "notice" ELSE "trained"

(***************************************************************************)
(* One run of the script below load_data (lines 69-259).  w holds the      *)
(* widget values of the session; on the first run every widget takes its   *)
(* default.                                                                *)
(***************************************************************************)
NoKpi == [Patients |-> <<>>, Smokers |-> <<>>, HTN |-> <<>>, Bleeding |-> <<>>]

Years(rows) == {rows[i].Year[1] : i \in 1..Len(rows)}

Ages(rows) == {rows[i].Age[1] : i \in 1..Len(rows)}

\* yrs[0], yrs[-1] (line 71) raise IndexError on a table with no rows
YearSliderRaises(rows) == rows = <<>>

\* On an object Age column the minimum and maximum are texts: the slider
\* of line 85 or the comparison of line 93 raises before filtered exists
AgeFilterRaises(obj) == obj

Page(rows, obj, first, w) ==
    IF YearSliderRaises(rows)
    THEN [status |-> "IndexError", y_from |-> 0, y_to |-> 0, sel_area |-> {},
          sel_gender |-> {}, sel_smoke |-> {}, a_from |-> 0, a_to |-> 0,
          filtered |-> <<>>, kpi |-> NoKpi, risk |-> "none",
          thr |-> ThrDefault, clicked_area |-> w.clicked_area]
    ELSE
    LET yf     == IF first THEN Min(Years(rows)) ELSE w.y_from
        yt     == IF first THEN Max(Years(rows)) ELSE w.y_to
        area   == IF first THEN Column(rows, "Residence") ELSE w.sel_area
        gender == IF first THEN Column(rows, "Sex") ELSE w.sel_gender
        smoke  == IF first THEN smk_opts ELSE w.sel_smoke
    IN  IF AgeFilterRaises(obj)
        THEN [status |-> "TypeError", y_from |-> yf, y_to |-> yt,
              sel_area |-> area, sel_gender |-> gender, sel_smoke |-> smoke,
              a_from |-> 0, a_to |-> 0, filtered |-> <<>>, kpi |-> NoKpi,
              risk |-> "none", thr |-> ThrDefault,
              clicked_area |-> w.clicked_area]
        ELSE
        LET af  == IF first THEN Min(Ages(rows)) ELSE w.a_from
            at  == IF first THEN Max(Ages(rows)) ELSE w.a_to
            f   == Filter(rows, yf, yt, area, gender, smoke, af, at)
            tab == RiskTab(f)
        IN  [status |-> "ok", y_from |-> yf, y_to |-> yt, sel_area |-> area,
             sel_gender |-> gender, sel_smoke |-> smoke, a_from |-> af,
             a_to |-> at, filtered |-> f, kpi |-> KpiHeader(f), risk |-> tab,
             \* a slider that is not rendered loses its session value
             thr |-> IF tab = "trained" THEN w.thr ELSE ThrDefault,
             clicked_area |-> w.clicked_area]

Session ==
    [y_from |-> y_from, y_to |-> y_to, sel_area |-> sel_area,
     sel_gender |-> sel_gender, sel_smoke |-> sel_smoke, a_from |-> a_from,
     a_to |-> a_to, thr |-> thr, clicked_area |-> clicked_area]

Show(out) ==
    /\ status' = out.status
    /\ y_from' = out.y_from /\ y_to' = out.y_to
    /\ sel_area' = out.sel_area
    /\ sel_gender' = out.sel_gender
    /\ sel_smoke' = out.sel_smoke
    /\ a_from' = out.a_from /\ a_to' = out.a_to
    /\ filtered' = out.filtered
    /\ kpi' = out.kpi
    /\ risk' = out.risk
    /\ thr' = out.thr
    /\ clicked_area' = out.clicked_area

\* a rerun after an interaction: load_data() is served from st.cache_data,
\* so line 64 binds df to the table of the first run
Rerun(w) ==
    /\ status = "ok"
    /\ UNCHANGED <<raw, df, ageDtype>>
    /\ LET out == Page(df, ageDtype = "object", FALSE, w) IN Show(out)

(***************************************************************************)
(* The input files.                                                        *)
(***************************************************************************)
BaseRow ==
    [Date |-> <<"0", "1", ".", "0", "1", ".", "2", "0", "2", "0">>,
     Sex |-> <<"M">>, Age |-> <<"5", "9">>,
     Residence |-> <<"N", "o", "r", "t", "h">>,
     Smoker |-> <<"y", "e", "s">>, HTN |-> <<"n", "o">>,
     Bleeding |-> <<"n", "o">>]

OtherRow ==
    [Date |-> <<"1", "5", ".", "0", "6", ".", "2", "0", "2", "1">>,
     Sex |-> <<"F">>, Age |-> <<"6", "0">>,
     Residence |-> <<"S", "o", "u", "t", "h">>,
     Smoker |-> <<"n", "o">>, HTN |-> <<"y", "e", "s">>,
     Bleeding |-> <<"y", "e", "s">>]

BadDate == <<"b", "a", "d", "-", "d", "a", "t", "e">>

NotANumber == <<"a", "b", "c">>

\* yes/no texts in other case and with surrounding whitespace
MessyRow ==
    [BaseRow EXCEPT !.Smoker = <<" ", "Y", "e", "s", " ">>,
                    !.HTN = <<"N", "o">>,
                    !.Bleeding = <<" ", "N", "O">>]

RowPool ==
    { BaseRow, OtherRow, MessyRow,
      [OtherRow EXCEPT !.Date = <<"3", "1", ".", "0", "2", ".", "2", "0", "2", "0">>],
      [BaseRow EXCEPT !.Age = NotANumber],
      [BaseRow EXCEPT !.Age = NotANumber, !.Date = BadDate],
      [OtherRow EXCEPT !.Age = <<>>],
      [BaseRow EXCEPT !.Smoker = <<"m", "a", "y", "b", "e">>],
      [OtherRow EXCEPT !.HTN = <<>>],
      [OtherRow EXCEPT !.Sex = <<>>],
      [BaseRow EXCEPT !.Residence = <<>>] }

RECURSIVE SeqsUpTo(_, _)
SeqsUpTo(S, n) ==
    IF n = 0 THEN {<<>>}
    ELSE LET shorter == SeqsUpTo(S, n - 1) IN
         shorter \cup {Append(t, x) : t \in shorter, x \in S}

\* files of about MinTrainRows rows: BaseRow repeated, then one other row
LongFile(n, last) == [i \in 1..n |-> IF i = n THEN last ELSE BaseRow]

LongFiles ==
    {LongFile(MinTrainRows, last) :
        last \in {OtherRow, [OtherRow EXCEPT !.Date = BadDate]}}

Files == SeqsUpTo(RowPool, MaxRows) \cup LongFiles

(***************************************************************************)
(* The state machine.                                                      *)
(***************************************************************************)
Init ==
    /\ raw \in Files
    /\ status = "init"
    /\ df = <<>>
    /\ ageDtype = "number"
    /\ y_from = 0 /\ y_to = 0
    /\ sel_area = {} /\ sel_gender = {} /\ sel_smoke = {}
    /\ a_from = 0 /\ a_to = 0
    /\ filtered = <<>>
    /\ kpi = NoKpi
    /\ risk = "none"
    /\ thr = ThrDefault
    /\ clicked_area = NaN

\* the first run of the script: load_data() (line 64), then the page
FirstRun ==
    /\ status = "init"
    /\ LET ld == load_data(raw) IN
       /\ UNCHANGED raw
       /\ ageDtype' = IF ld.obj THEN "object" ELSE "number"
       /\ df' = ld.rows
       /\ IF ld.error # "none"
          THEN /\ status' = ld.error
               /\ UNCHANGED <<y_from, y_to, sel_area, sel_gender, sel_smoke,
                              a_from, a_to, filtered, kpi, risk, thr,
                              clicked_area>>
          ELSE LET out == Page(ld.rows, ld.obj, TRUE, Session) IN Show(out)

\* the user moves the year slider (line 72)
SetYearRange ==
    /\ status = "ok"
    /\ \E lo, hi \in Min(Years(df))..Max(Years(df)) :
        /\ lo <= hi
        /\ Rerun([Session EXCEPT !.y_from = lo, !.y_to = hi])

\* the user changes the residence selection (line 76)
SetResidence ==
    \E S \in SUBSET Column(df, "Residence") :
        Rerun([Session EXCEPT !.sel_area = S])

\* the user changes the gender selection (line 79)
SetGender ==
    \E S \in SUBSET Column(df, "Sex") :
        Rerun([Session EXCEPT !.sel_gender = S])

\* the user changes the smoker selection (line 82)
SetSmoker ==
    \E S \in SUBSET smk_opts :
        Rerun([Session EXCEPT !.sel_smoke = S])

\* the user moves the age slider (line 85)
SetAgeRange ==
    /\ status = "ok"
    /\ \E lo, hi \in Min(Ages(df))..Max(Ages(df)) :
        /\ lo <= hi
        /\ Rerun([Session EXCEPT !.a_from = lo, !.a_to = hi])

\* the user moves the threshold slider, which exists once a model is fitted
SetThreshold ==
    /\ risk = "trained"
    /\ \E t \in 0..ThrMax : Rerun([Session EXCEPT !.thr = t])

\* the user clicks a bar of "Surgeries by residence" (lines 162-175)
ClickBar ==
    /\ status = "ok"
    /\ \E a \in Column(filtered, "Residence") :
        Rerun([Session EXCEPT !.clicked_area = a])

\* the user presses "Download CSV" (lines 255-259): a rerun, nothing else
Download == Rerun(Session)

Next ==
    \/ FirstRun
    \/ SetYearRange
    \/ SetResidence
    \/ SetGender
    \/ SetSmoker
    \/ SetAgeRange
    \/ SetThreshold
    \/ ClickBar
    \/ Download

Spec == Init /\ [][Next]_vars

(***************************************************************************)
(* Properties.                                                             *)
(***************************************************************************)
Yes == <<"y", "e", "s">>

No == <<"n", "o">>

\* load_data returned a table (it raised no exception)
Loaded == status \notin {"init", "ValueError"}

Indexes(rows) == {rows[i].idx : i \in 1..Len(rows)}

YesNoCols == {"Smoker", "HTN", "Bleeding"}

NumOf(r, c) ==
    CASE c = "Smoker" -> r.Smoker_Num
      [] c = "HTN" -> r.HTN_Num
      [] c = "Bleeding" -> r.Bleeding_Num

\* C1: every row of the cleaned table has a value in Sex, Age, Residence,
\* Smoker_Num, HTN_Num, Bleeding_Num and Year; a raw row whose Date does not
\* parse as day.month.year, or with an empty Sex, Age or Residence cell, is
\* not in the cleaned table.
C1_NullSafety ==
    /\ \A i \in 1..Len(df) :
          \A c \in {"Sex", "Age", "Residence", "Smoker_Num", "HTN_Num",
                    "Bleeding_Num", "Year"} : df[i][c] # NaN
    /\ \A j \in 1..Len(raw) :
          (\/ to_datetime(raw[j].Date) = NaN
           \/ raw[j].Sex = <<>> \/ raw[j].Age = <<>> \/ raw[j].Residence = <<>>)
          => (j - 1) \notin Indexes(df)

\* C1 witness: load_data kept a row and dropped a row
C1_Witness == Loaded /\ Len(df) > 0 /\ Len(df) < Len(raw)

\* C2: for Smoker, HTN and Bleeding, a kept row has _Num 1 iff its text,
\* trimmed and lowercased, is "yes" and 0 iff it is "no"; a raw row with any
\* other text (an empty cell included) is not in the cleaned table.
C2_BinaryMapping ==
    \A c \in YesNoCols :
        /\ \A i \in 1..Len(df) :
              /\ NumOf(df[i], c) \in {<<0>>, <<1>>}
              /\ NumOf(df[i], c) = <<1>> <=> lower(strip(df[i][c])) = Yes
              /\ NumOf(df[i], c) = <<0>> <=> lower(strip(df[i][c])) = No
        /\ \A j \in 1..Len(raw) :
              lower(strip(raw[j][c])) \notin {Yes, No}
              => (j - 1) \notin Indexes(df)

\* C2 witness: a kept row whose text needed trimming and lowercasing, and a
\* dropped row whose text is neither yes nor no
C2_Witness ==
    /\ Loaded
    /\ \E i \in 1..Len(df) :
          df[i].Smoker \notin {Yes, No} /\ df[i].Smoker_Num = <<1>>
    /\ \E j \in 1..Len(raw) :
          raw[j].Smoker # <<>> /\ lower(strip(raw[j].Smoker)) \notin {Yes, No}

\* the membership law of the filter, over the selectors the page has
InSelection(r) ==
    /\ y_from <= r.Year[1] /\ r.Year[1] <= y_to
    /\ a_from <= r.Age[1] /\ r.Age[1] <= a_to
    /\ r.Residence \in sel_area
    /\ r.Sex \in sel_gender
    /\ r.Smoker \in sel_smoke

C4_Original ==
    (status = "ok" /\ filtered = <<>>) =>
        \A k \in {kpi.Smokers, kpi.HTN, kpi.Bleeding} :
            k \notin {<<"n", "a", "n">>, <<"0", ".", "0">>}

\* C5: the model is fitted only on a filtered subset of at least 60 rows;
\* with fewer rows the notice is shown and no threshold slider exists.
C5_TrainGuard ==
    /\ risk = "trained" => (status = "ok" /\ Len(filtered) >= 60)
    /\ (status = "ok" /\ Len(filtered) < 60)
       => (risk = "notice" /\ thr = ThrDefault)

\* C5 witness: a rerun whose filtered subset has 59 rows shows the notice
C5_Witness == status = "ok" /\ Len(filtered) = 59 /\ risk = "notice"

\* a raw row that passes every completeness check
Eligible(r) ==
    /\ to_datetime(r.Date) # NaN
    /\ r.Sex # <<>> /\ IsDigits(r.Age) /\ r.Residence # <<>>
    /\ \A c \in YesNoCols : lower(strip(r[c])) \in {Yes, No}

\* C6 as stated: with a non-numeric Age in the file, load_data completes
\* without an error and every eligible row is in the cleaned table.
C6_Original ==
    (status # "init" /\ \E j \in 1..Len(raw) :
                            raw[j].Age # <<>> /\ ~IsDigits(raw[j].Age))
    => /\ status # "ValueError"
       /\ \A j \in 1..Len(raw) :
             Eligible(raw[j]) => (j - 1) \in Indexes(df)

\* C7 as stated: when the cleaned table has no rows, the page pass that
\* follows completes without an exception.
C7_Original == (Loaded /\ df = <<>>) => status = "ok"

\* one selection is no wider than the other, in every dimension
Narrowed ==
    /\ y_from' >= y_from /\ y_to' <= y_to
    /\ a_from' >= a_from /\ a_to' <= a_to
    /\ sel_area' \subseteq sel_area
    /\ sel_gender' \subseteq sel_gender
    /\ sel_smoke' \subseteq sel_smoke

\* C8: a rerun whose selection is narrowed in one dimension, the others
\* staying the same, gives a filtered subset contained in the previous one,
\* with no more rows.
C8_Monotone ==
    [][(status = "ok" /\ status' = "ok" /\ Narrowed)
       => /\ Range(filtered') \subseteq Range(filtered)
          /\ Len(filtered') <= Len(filtered)]_vars

\* C8 witness: a narrowed gender selection with fewer rows than the table
C8_Witness ==
    /\ status = "ok"
    /\ sel_gender # {} /\ sel_gender # Column(df, "Sex")
    /\ sel_area = Column(df, "Residence")
    /\ filtered # <<>> /\ Len(filtered) < Len(df)

\* every sidebar control is at its default
AtDefaults ==
    /\ status = "ok"
    /\ y_from = Min(Years(df)) /\ y_to = Max(Years(df))
    /\ a_from = Min(Ages(df)) /\ a_to = Max(Ages(df))
    /\ sel_area = Column(df, "Residence")
    /\ sel_gender = Column(df, "Sex")
    /\ sel_smoke = smk_opts

\* C9 as stated: with every control at its default the filtered subset is
\* the whole cleaned table.
C9_Original == AtDefaults => filtered = df

\* C10: once loaded, the cleaned table keeps its rows and values through
\* every interaction, and the filtered subset holds rows of the cleaned
\* table in the table's order.
C10_ReadOnly ==
    [][/\ status # "init" => df' = df
       /\ Range(filtered') \subseteq Range(df')
       /\ \A i, j \in 1..Len(filtered') :
             i < j => filtered'[i].idx < filtered'[j].idx]_vars

\* C10 witness: after a bar click and a changed selection, the filtered
\* subset holds several rows but not all
C10_Witness ==
    /\ status = "ok"
    /\ clicked_area # NaN
    /\ Len(filtered) >= 2 /\ Len(filtered) < Len(df)

====
